---- MODULE Spec2Model ----
(***************************************************************************)
(* Model of src/src/01_prepare_data.py: the text-only data preparation     *)
(* script (load two CSV tables, extract pack size / measure / unit from    *)
(* the catalog text, one-hot encode the unit, impute with medians, align   *)
(* the train and test feature columns, concatenate and persist).           *)
(*                                                                         *)
(* Texts are sequences of one-character strings.  A data frame is a record *)
(* [index, columns, rows]: index is the sequence of row labels, columns    *)
(* the ordered column names and rows[k] the row labelled index[k], a       *)
(* function from column name to cell.  Every modelled row stands for a run *)
(* of RunLen consecutive identical rows of the file, so that len(df) is    *)
(* Len(df.index) * RunLen and the 75000-row threshold keeps its value.     *)
(***************************************************************************)
EXTENDS Integers, Sequences, FiniteSets, TLC

VARIABLES pc, fs, fs_initial, train_df, test_df,
          train_features_df, test_features_df,
          median_measure, median_pack_size,
          train_cols, test_cols, train_final, test_final,
          fits, fills, call, ret

vars == <<pc, fs, fs_initial, train_df, test_df,
          train_features_df, test_features_df,
          median_measure, median_pack_size,
          train_cols, test_cols, train_final, test_final,
          fits, fills, call, ret>>

(***************************************************************************)
(* Bounds of the model.                                                    *)
(***************************************************************************)
\* Longest text, in fragments, given to extract_features on its own.
MaxFrags == 3
\* Most runs of rows in a loaded table.
MaxRuns == 2
\* Rows of the file each modelled row stands for.
RunLen == 37500

(***************************************************************************)
(* Program constants.                                                      *)
(***************************************************************************)
MinTrainRows == 75000
RAW_DATA_FOLDER == "data/raw"
PROCESSED_DATA_FOLDER == "data/processed"
TRAIN_OUT == "data/processed/train_processed.parquet"
TEST_OUT == "data/processed/test_processed.parquet"

\* The element of a one-element set.  The({e(v) : v \in {x}}) is e with the
\* local variable v bound to the value of x, computed once.
The(S) == CHOOSE r \in S : TRUE

(***************************************************************************)
(* Cells.  A float cell is a number in units of 1/FloatDen or NaN; None is *)
(* the absent keyword argument.  A string cell is a text or missing.       *)
(***************************************************************************)
FloatDen == 2 * 10
Num(x) == [kind |-> "num", v |-> x]
NaN == [kind |-> "nan", v |-> 0]
None == [kind |-> "none", v |-> 0]
Str(s) == [isna |-> FALSE, s |-> s]
NA == [isna |-> TRUE, s |-> <<>>]

(***************************************************************************)
(* Characters, in ASCII order.                                             *)
(***************************************************************************)
Ascii ==
  <<"\t", "\n", " ", "(", ")", ".",
    "0", "1", "2", "3", "4", "5", "6", "7", "8", "9", ":", ";",
    "A", "B", "C", "D", "E", "F", "G", "H", "I", "J", "K", "L", "M",
    "N", "O", "P", "Q", "R", "S", "T", "U", "V", "W", "X", "Y", "Z", "_",
    "a", "b", "c", "d", "e", "f", "g", "h", "i", "j", "k", "l", "m",
    "n", "o", "p", "q", "r", "s", "t", "u", "v", "w", "x", "y", "z">>
Code(c) == CHOOSE i \in 1..Len(Ascii) : Ascii[i] = c
UpperLetters == {Ascii[i] : i \in 19..44}
LowerLetters == {Ascii[i] : i \in 46..71}
\* \d
Digits == {Ascii[i] : i \in 7..16}
\* \s
Spaces == {"\t", "\n", " "}
\* \w
WordChars == UpperLetters \cup LowerLetters \cup Digits \cup {"_"}
\* [\d\.]
DigitsOrDot == Digits \cup {"."}
\* [\w\s]
WordOrSpace == WordChars \cup Spaces

\* str.lower on one character, and on a string
LowerChar(c) == IF c \in UpperLetters THEN Ascii[Code(c) + 27] ELSE c
Lower(s) == [i \in 1..Len(s) |-> LowerChar(s[i])]

\* str.strip: leading and trailing whitespace removed
Strip(s) ==
  LET keep == {i \in 1..Len(s) : s[i] \notin Spaces}
  IN  IF keep = {} THEN <<>>
      ELSE LET lo == CHOOSE i \in keep : \A j \in keep : i <= j
               hi == CHOOSE i \in keep : \A j \in keep : j <= i
           IN  SubSeq(s, lo, hi)

(***************************************************************************)
(* Regular expressions (re.IGNORECASE, leftmost match, greedy).            *)
(***************************************************************************)
\* the literal lit (lowercase) matches t at position i, whatever the case
MatchLit(t, i, lit) ==
  /\ i + Len(lit) - 1 <= Len(t)
  /\ \A k \in 1..Len(lit) : LowerChar(t[i + k - 1]) = lit[k]

\* end (exclusive) of the longest run of characters of class cls from i
RunEnd(t, i, cls) ==
  CHOOSE j \in i..(Len(t) + 1) :
    /\ \A k \in i..(j - 1) : t[k] \in cls
    /\ (j = Len(t) + 1 \/ t[j] \notin cls)

NoMatch == [found |-> FALSE, group |-> <<>>]
Match(g) == [found |-> TRUE, group |-> g]

\* the alternatives of pack_regex, in the order the pattern lists them
PackWords ==
  << <<"p", "a", "c", "k", " ", "o", "f">>,
     <<"c", "o", "u", "n", "t">>,
     <<"p", "e", "r", " ", "c", "a", "s", "e">>,
     <<"p", "a", "c", "k">> >>

\* \s*\(?(\d+)\)? from position p: the digits captured, or no match
PackTail(t, p) ==
  LET q == RunEnd(t, p, Spaces)
      r == IF q <= Len(t) /\ t[q] = "(" THEN q + 1 ELSE q
      e == RunEnd(t, r, Digits)
  IN  IF e > r THEN Match(SubSeq(t, r, e - 1)) ELSE NoMatch

\* pack_regex tried at position i: the first alternative whose tail matches
PackAt(t, i) ==
  LET ok == {a \in 1..Len(PackWords) :
               /\ MatchLit(t, i, PackWords[a])
               /\ PackTail(t, i + Len(PackWords[a])).found}
  IN  IF ok = {} THEN NoMatch
      ELSE LET a == CHOOSE x \in ok : \A y \in ok : x <= y
           IN  PackTail(t, i + Len(PackWords[a]))

\* value:\s*([\d\.]+) tried at position i
ValueAt(t, i) ==
  LET lit == <<"v", "a", "l", "u", "e", ":">>
      q == RunEnd(t, i + Len(lit), Spaces)
      e == RunEnd(t, q, DigitsOrDot)
  IN  IF MatchLit(t, i, lit) /\ e > q THEN Match(SubSeq(t, q, e - 1))
      ELSE NoMatch

\* unit:\s*([\w\s]+) tried at position i.  \s* takes every space; the group
\* takes the rest of the run of word characters and spaces.  When no such
\* character is left for the group, \s* gives its last space back to it.
UnitAt(t, i) ==
  LET lit == <<"u", "n", "i", "t", ":">>
      p == i + Len(lit)
      q == RunEnd(t, p, Spaces)
      e == RunEnd(t, q, WordOrSpace)
  IN  IF ~MatchLit(t, i, lit) THEN NoMatch
      ELSE IF e > q THEN Match(SubSeq(t, q, e - 1))
      ELSE IF q > p THEN Match(SubSeq(t, q - 1, q - 1))
      ELSE NoMatch

\* the compiled pattern named regex tried at position i of t
RegexAt(regex, t, i) ==
  CASE regex = "pack_regex" -> PackAt(t, i)
    [] regex = "value_regex" -> ValueAt(t, i)
    [] regex = "unit_regex" -> UnitAt(t, i)

\* regex.search(t): the group of the leftmost match, NA when nothing matches
Search(regex, t) ==
  The({IF hits = {} THEN NA
       ELSE Str(RegexAt(regex, t, CHOOSE i \in hits : \A j \in hits : i <= j).group) :
         hits \in {{i \in 1..Len(t) : RegexAt(regex, t, i).found}}})

\* Series.str.extract(regex, expand=False) on one cell: NA for a missing cell
Extract(regex, cell) ==
  IF cell.isna THEN NA ELSE The({Search(regex, t) : t \in {cell.s}})

(***************************************************************************)
(* Series.astype(float): a float stays, a string is parsed as Python's     *)
(* float() parses it.  The groups the patterns capture hold digits and     *)
(* dots only: such a string is a number iff it has a digit and at most one *)
(* dot.  The modelled float keeps one fractional digit.                    *)
(***************************************************************************)
ValueError == [kind |-> "ValueError", v |-> 0]

\* the number the first n characters of s, all digits, spell
RECURSIVE DecVal(_, _)
DecVal(s, n) ==
  IF n = 0 THEN 0 ELSE DecVal(s, n - 1) * 10 + (Code(s[n]) - 7)

ParseFloat(s) ==
  LET dots == {i \in 1..Len(s) : s[i] = "."}
      digs == {i \in 1..Len(s) : s[i] \in Digits}
  IN  IF \/ digs = {}
         \/ Cardinality(dots) > 1
         \/ \E i \in 1..Len(s) : s[i] \notin DigitsOrDot
      THEN ValueError
      ELSE LET d == IF dots = {} THEN Len(s) + 1 ELSE CHOOSE i \in dots : TRUE
               whole == DecVal(s, d - 1)
               tenth == IF d + 1 <= Len(s) THEN Code(s[d + 1]) - 7 ELSE 0
           IN  Num(whole * FloatDen + (tenth * FloatDen) \div 10)

\* Series.fillna(value) on a column of extracted groups
FillGroup(cell, value) == IF cell.isna THEN value ELSE cell

\* astype(float) on one element: a float already, or a string to parse
AsFloat(x) == IF "kind" \in DOMAIN x THEN x ELSE The({ParseFloat(s) : s \in {x.s}})

(***************************************************************************)
(* extract_features(text_series): three parallel sequences, or ValueError  *)
(* raised by astype(float).                                                *)
(***************************************************************************)
\* Series.astype(str): a missing cell becomes the string "nan"
AsStr(cell) == IF cell.isna THEN Str(<<"n", "a", "n">>) ELSE cell

Raised(e) == [exc |-> e]

\* the three columns of one row
PackSizeOf(text) == AsFloat(FillGroup(Extract("pack_regex", text), Num(1 * FloatDen)))
ValueOf(text) == AsFloat(FillGroup(Extract("value_regex", text), Num(0)))
UnitOf(text) ==
  The({Lower(Strip(u)) :
         u \in {FillGroup(Extract("unit_regex", text),
                          Str(<<"U", "n", "k", "n", "o", "w", "n">>)).s}})

ExtractResult(pack_sizes, values, units) ==
  IF \E i \in 1..Len(pack_sizes) : pack_sizes[i] = ValueError \/ values[i] = ValueError
  THEN Raised("ValueError")
  ELSE [exc |-> "", pack_sizes |-> pack_sizes, values |-> values, units |-> units]

extract_features(text_series) ==
  The({The({ExtractResult(pack_sizes, values, units) :
              pack_sizes \in {[i \in 1..Len(text) |-> PackSizeOf(text[i])]},
              values \in {[i \in 1..Len(text) |-> ValueOf(text[i])]},
              units \in {[i \in 1..Len(text) |-> UnitOf(text[i])]}}) :
         text \in {[i \in 1..Len(text_series) |-> AsStr(text_series[i])]}})

(***************************************************************************)
(* Data frames.                                                            *)
(***************************************************************************)
\* a column name: a fixed name, for a unit indicator followed by the token
Col(name, token) == [name |-> name, token |-> token]
PACK_SIZE == Col("pack_size", <<>>)
TOTAL_MEASURE == Col("total_measure", <<>>)
UNIT == Col("unit", <<>>)
SAMPLE_ID == Col("sample_id", <<>>)
CATALOG_CONTENT == Col("catalog_content", <<>>)
IMAGE_LINK == Col("image_link", <<>>)
PRICE == Col("price", <<>>)
LOG_PRICE == Col("log_price", <<>>)

Range(s) == {s[i] : i \in 1..Len(s)}

DataFrame(index, columns, rows) ==
  [index |-> index, columns |-> columns, rows |-> rows]

\* len(df)
NumRows(df) == Len(df.index) * RunLen

\* df[c]
Column(df, c) == [k \in 1..Len(df.index) |-> df.rows[k][c]]

\* df.drop(c, axis=1)
Drop(df, c) ==
  The({DataFrame(df.index, keep,
                 [k \in 1..Len(df.index) |-> [x \in Range(keep) |-> df.rows[k][x]]]) :
         keep \in {SelectSeq(df.columns, LAMBDA x : x # c)}})

\* position of label l in df.index
Loc(df, l) == CHOOSE k \in 1..Len(df.index) : df.index[k] = l

\* pd.concat([a, b]) with the axis left out: the rows of b below those of a
ConcatAxis0(a, b) ==
  DataFrame(a.index \o b.index, a.columns \o b.columns,
            [k \in 1..(Len(a.index) + Len(b.index)) |->
               [c \in Range(a.columns) \cup Range(b.columns) |->
                  IF k <= Len(a.index)
                  THEN IF c \in Range(a.columns) THEN a.rows[k][c] ELSE NaN
                  ELSE IF c \in Range(b.columns) THEN b.rows[k - Len(a.index)][c]
                       ELSE NaN]])

\* pd.concat([a, b], axis=1): the rows are joined on their index labels (the
\* labels of a, then those only b has); a cell with no source row is NaN
ConcatAxis1(a, b) ==
  LET cell(df, l, c) == IF l \in Range(df.index) THEN df.rows[Loc(df, l)][c] ELSE NaN
  IN  The({DataFrame(index, a.columns \o b.columns,
                     [k \in 1..Len(index) |->
                        [c \in Range(a.columns) \cup Range(b.columns) |->
                           IF c \in Range(a.columns) THEN cell(a, index[k], c)
                           ELSE cell(b, index[k], c)]]) :
             index \in {a.index \o SelectSeq(b.index, LAMBDA l : l \notin Range(a.index))}})

(***************************************************************************)
(* pd.get_dummies(units, prefix='unit'): one boolean column per distinct   *)
(* token of this series, the tokens in sorted order.                       *)
(***************************************************************************)
\* a < b for strings
LexLess(a, b) ==
  \E k \in 1..(Len(a) + 1) :
    /\ k <= Len(b)
    /\ \A j \in 1..(k - 1) : a[j] = b[j]
    /\ (k = Len(a) + 1 \/ Code(a[k]) < Code(b[k]))

\* the strings of S in increasing order
SortedTokens(S) ==
  [j \in 1..Cardinality(S) |->
     CHOOSE x \in S : Cardinality({y \in S : LexLess(y, x)}) = j - 1]

get_dummies(index, units) ==
  The({DataFrame(index, [j \in 1..Len(levels) |-> Col("unit_", levels[j])],
                 [k \in 1..Len(index) |->
                    [c \in {Col("unit_", levels[j]) : j \in 1..Len(levels)} |->
                       units[k] = c.token]]) :
         levels \in {SortedTokens(Range(units))}})

(***************************************************************************)
(* Series.median() and Series.fillna(value) on a float column.             *)
(***************************************************************************)
\* the numbers of s in increasing order (equal numbers by position)
SortNums(s) ==
  [r \in 1..Len(s) |->
     s[CHOOSE i \in 1..Len(s) :
         Cardinality({j \in 1..Len(s) : s[j] < s[i] \/ (s[j] = s[i] /\ j < i)}) = r - 1]]

\* the median of the sorted numbers xs, each standing for RunLen rows
MedianOfSorted(xs) ==
  LET n == Len(xs) * RunLen
      at(pos) == xs[((pos - 1) \div RunLen) + 1]
  IN  IF n = 0 THEN NaN
      ELSE IF n % 2 = 1 THEN Num(at((n + 1) \div 2))
      ELSE Num((at(n \div 2) + at(n \div 2 + 1)) \div 2)

\* the median of the values that are not NaN; NaN when there is none
Median(column) ==
  The({MedianOfSorted(xs) :
         xs \in {SortNums(The({[i \in 1..Len(present) |-> present[i].v] :
                                 present \in {SelectSeq(column, LAMBDA x : x.kind = "num")}}))}})

\* fillna that takes the not-found default 0 for a missing value too
FillnaOrZero(x, value) == IF x.kind = "nan" \/ x.v = 0 THEN value ELSE x

Fillna(x, value) == IF x.kind = "nan" THEN value ELSE x

(***************************************************************************)
(* create_feature_df(df, median_measure, median_pack_size): the feature    *)
(* table and the two medians, or the exception extract_features raised.    *)
(***************************************************************************)
\* lines 83-87
FeatureFrame(index, ex) ==
  DataFrame(index, <<PACK_SIZE, TOTAL_MEASURE, UNIT>>,
            [k \in 1..Len(index) |->
               [c \in {PACK_SIZE, TOTAL_MEASURE, UNIT} |->
                  IF c = PACK_SIZE THEN ex.pack_sizes[k]
                  ELSE IF c = TOTAL_MEASURE THEN ex.values[k]
                  ELSE ex.units[k]]])

\* lines 89-91
Encode(feature_df) ==
  The({Drop(features_df, UNIT) :
         features_df \in
           {The({ConcatAxis1(feature_df, unit_dummies) :
                   unit_dummies \in {get_dummies(feature_df.index,
                                                 Column(feature_df, UNIT))}})}})

\* lines 100-101
FillFrame(features_df, measure, pack) ==
  DataFrame(features_df.index, features_df.columns,
            [k \in 1..Len(features_df.index) |->
               [c \in Range(features_df.columns) |->
                  IF c = TOTAL_MEASURE THEN Fillna(features_df.rows[k][c], measure)
                  ELSE IF c = PACK_SIZE THEN Fillna(features_df.rows[k][c], pack)
                  ELSE features_df.rows[k][c]]])

\* lines 93-103
FitAndFill(features_df, mm, mp) ==
  The({[exc |-> "", features_df |-> FillFrame(features_df, measure, pack),
        median_measure |-> measure, median_pack_size |-> pack] :
         measure \in {IF mm = None THEN Median(Column(features_df, TOTAL_MEASURE))
                      ELSE mm},
         pack \in {IF mp = None THEN Median(Column(features_df, PACK_SIZE)) ELSE mp}})

create_feature_df(df, mm, mp) ==
  The({IF ex.exc # "" THEN Raised(ex.exc)
       ELSE The({FitAndFill(features_df, mm, mp) :
                   features_df \in {Encode(FeatureFrame(df.index, ex))}}) :
         ex \in {extract_features(Column(df, CATALOG_CONTENT))}})

(***************************************************************************)
(* train_features_df.align(test_features_df, join='inner', axis=1,         *)
(* fill_value=0): both frames are reindexed to the joined columns; a       *)
(* column a frame lacks would be filled with fill_value.                   *)
(***************************************************************************)
\* Index.join(other, how='left'): the columns of the left
JoinLeft(left, right) == left

\* Index.join(other, how='inner'): the columns of both, in the left's order
JoinInner(left, right) == SelectSeq(left, LAMBDA c : c \in Range(right))

Reindex(df, columns, fill_value) ==
  DataFrame(df.index, columns,
            [k \in 1..Len(df.index) |->
               [c \in Range(columns) |->
                  IF c \in Range(df.columns) THEN df.rows[k][c] ELSE fill_value]])

Align(left, right) ==
  The({<<Reindex(left, join_columns, Num(0)), Reindex(right, join_columns, Num(0))>> :
         join_columns \in {JoinInner(left.columns, right.columns)}})

(***************************************************************************)
(* The files the run can be given.                                         *)
(***************************************************************************)
\* catalog texts of the loaded tables: three units and measures, and a
\* value key followed by a lone dot
CatalogTexts ==
  { <<"P", "a", "c", "k", " ", "o", "f", " ", "6", " ", "V", "a", "l", "u", "e", ":",
      " ", "1", ".", "5", " ", "U", "n", "i", "t", ":", " ", "O", "z">>,
    <<"V", "a", "l", "u", "e", ":", " ", "1", "2", "\n", "U", "n", "i", "t", ":", " ",
      "l", "b", "\n">>,
    <<"C", "o", "u", "n", "t", " ", "1", "2", " ", "U", "n", "i", "t", ":", " ", "m", "l">>,
    <<"V", "a", "l", "u", "e", ":", " ", ".">> }

CatalogCells == {Str(t) : t \in CatalogTexts}

\* pd.read_csv of a file whose catalog_content column is texts: RangeIndex
\* labels 0..n-1, the columns of the file in order
ReadCsv(columns, texts) ==
  DataFrame([k \in 1..Len(texts) |-> k - 1], columns,
            [k \in 1..Len(texts) |->
               [c \in Range(columns) |->
                  IF c = SAMPLE_ID THEN Num(k)
                  ELSE IF c = CATALOG_CONTENT THEN texts[k]
                  ELSE IF c = IMAGE_LINK THEN Str(<<"u", "r", "l">>)
                  ELSE Num(k * FloatDen)]])

SeqsUpTo(S, n) == UNION {[1..m -> S] : m \in 0..n}

TrainTables ==
  {ReadCsv(<<SAMPLE_ID, CATALOG_CONTENT, IMAGE_LINK, PRICE>>, texts) :
     texts \in SeqsUpTo(CatalogCells, MaxRuns)}
TestTables ==
  {ReadCsv(<<SAMPLE_ID, CATALOG_CONTENT, IMAGE_LINK>>, texts) :
     texts \in SeqsUpTo(CatalogCells, MaxRuns)}

(***************************************************************************)
(* The file system: the directories that exist and, for each output file   *)
(* that exists, how many times it has been written.                        *)
(***************************************************************************)
\* both data folders created
MakeDirsBoth(f, path) == [f EXCEPT !.dirs = @ \cup {"data", RAW_DATA_FOLDER, path}]

\* os.makedirs(path, exist_ok=True): path and its parent "data"
MakeDirsResult(f, path) == [f EXCEPT !.dirs = @ \cup {"data", path}]

\* DataFrame.to_parquet(path)
ToParquet(f, path) ==
  [f EXCEPT !.files = [p \in DOMAIN @ \cup {path} |->
                         IF p \in DOMAIN @ THEN IF p = path THEN @[p] + 1 ELSE @[p]
                         ELSE 1]]

NoFiles == [p \in {} |-> 0]
InitialFileSystems ==
  { [dirs |-> {}, files |-> NoFiles],
    [dirs |-> {"data", RAW_DATA_FOLDER}, files |-> NoFiles],
    [dirs |-> {"data", RAW_DATA_FOLDER, PROCESSED_DATA_FOLDER}, files |-> NoFiles] }

(***************************************************************************)
(* The run, statement by statement.                                        *)
(***************************************************************************)
NoFrame == DataFrame(<<>>, <<>>, <<>>)
NoCall == [fn |-> "none"]
NoReturn == [exc |-> "none"]

Init ==
  /\ pc = "makedirs"
  /\ fs \in InitialFileSystems
  /\ fs_initial = fs
  /\ train_df = NoFrame /\ test_df = NoFrame
  /\ train_features_df = NoFrame /\ test_features_df = NoFrame
  /\ median_measure = None /\ median_pack_size = None
  /\ train_cols = NoFrame /\ test_cols = NoFrame
  /\ train_final = NoFrame /\ test_final = NoFrame
  /\ fits = <<>>
  /\ fills = [train |-> <<None, None>>, test |-> <<None, None>>]
  /\ call = NoCall /\ ret = NoReturn

frames == <<train_features_df, test_features_df, median_measure, median_pack_size,
            train_cols, test_cols, train_final, test_final, fits, fills>>

\* line 19
MakeDirs ==
  /\ pc = "makedirs"
  /\ fs' = MakeDirsResult(fs, PROCESSED_DATA_FOLDER)
  /\ pc' = "read_train"
  /\ UNCHANGED <<fs_initial, train_df, test_df, frames, call, ret>>

\* lines 27-37 (the field size limit of lines 27-35 changes no state of the
\* model): the file is there and parses
ReadTrain ==
  /\ pc = "read_train"
  /\ RAW_DATA_FOLDER \in fs.dirs
  /\ \E t \in TrainTables : train_df' = t
  /\ pc' = "read_test"
  /\ UNCHANGED <<fs, fs_initial, test_df, frames, call, ret>>

\* line 37 raises (file missing, corrupt or unparseable): lines 51-56
ReadTrainFails ==
  /\ pc = "read_train"
  /\ pc' = "exit_load_error"
  /\ UNCHANGED <<fs, fs_initial, train_df, test_df, frames, call, ret>>

\* line 38
ReadTest ==
  /\ pc = "read_test"
  /\ RAW_DATA_FOLDER \in fs.dirs
  /\ \E t \in TestTables : test_df' = t
  /\ pc' = "check_rows"
  /\ UNCHANGED <<fs, fs_initial, train_df, frames, call, ret>>

\* line 38 raises: lines 51-56
ReadTestFails ==
  /\ pc = "read_test"
  /\ pc' = "exit_load_error"
  /\ UNCHANGED <<fs, fs_initial, train_df, test_df, frames, call, ret>>

\* the row count never found too low
TooFewRowsIgnored(df) == NumRows(df) < 0

\* line 44
TooFewRows(df) == NumRows(df) < MinTrainRows

\* lines 44-49: sys.exit() raises SystemExit, which except Exception lets pass
CheckRows ==
  /\ pc = "check_rows"
  /\ pc' = IF TooFewRows(train_df) THEN "exit_incomplete" ELSE "train_features"
  /\ UNCHANGED <<fs, fs_initial, train_df, test_df, frames, call, ret>>

\* the ghost record of a call of create_feature_df: the table a median was
\* computed from, once per median computed
Fitted(name, mm, mp) ==
  (IF mm = None THEN <<name>> ELSE <<>>) \o (IF mp = None THEN <<name>> ELSE <<>>)

\* line 107; an exception of create_feature_df ends the run with a traceback
ProcessTrain ==
  /\ pc = "train_features"
  /\ \E r \in {create_feature_df(train_df, None, None)} :
         IF r.exc # ""
         THEN /\ pc' = "crashed"
              /\ UNCHANGED frames
         ELSE /\ pc' = "test_features"
              /\ train_features_df' = r.features_df
              /\ median_measure' = r.median_measure
              /\ median_pack_size' = r.median_pack_size
              /\ fits' = fits \o Fitted("train", None, None)
              /\ fills' = [fills EXCEPT !.train = <<r.median_measure, r.median_pack_size>>]
              /\ UNCHANGED <<test_features_df, train_cols, test_cols,
                             train_final, test_final>>
  /\ UNCHANGED <<fs, fs_initial, train_df, test_df, call, ret>>

\* the call for the test table made without the medians of the train table
TestMedianArgsRefit(mm, mp) == <<None, None>>

\* lines 113-114: the keyword arguments of the call for the test table
TestMedianArgs(mm, mp) == <<mm, mp>>

\* lines 111-115
ProcessTest ==
  /\ pc = "test_features"
  /\ \E a \in {TestMedianArgs(median_measure, median_pack_size)} :
     \E r \in {create_feature_df(test_df, a[1], a[2])} :
         IF r.exc # ""
         THEN /\ pc' = "crashed"
              /\ UNCHANGED frames
         ELSE /\ pc' = "align"
              /\ test_features_df' = r.features_df
              /\ fits' = fits \o Fitted("test", a[1], a[2])
              /\ fills' = [fills EXCEPT !.test = <<r.median_measure, r.median_pack_size>>]
              /\ UNCHANGED <<train_features_df, median_measure, median_pack_size,
                             train_cols, test_cols, train_final, test_final>>
  /\ UNCHANGED <<fs, fs_initial, train_df, test_df, call, ret>>

\* line 119
AlignColumns ==
  /\ pc = "align"
  /\ \E aligned \in {Align(train_features_df, test_features_df)} :
       /\ train_cols' = aligned[1]
       /\ test_cols' = aligned[2]
  /\ pc' = "build_final"
  /\ UNCHANGED <<fs, fs_initial, train_df, test_df, train_features_df,
                 test_features_df, median_measure, median_pack_size,
                 train_final, test_final, fits, fills, call, ret>>

\* line 136: the log_price column, np.log1p of the price left symbolic
AddLogPrice(df) ==
  DataFrame(df.index, Append(df.columns, LOG_PRICE),
            [k \in 1..Len(df.index) |->
               [c \in Range(df.columns) \cup {LOG_PRICE} |->
                  IF c = LOG_PRICE THEN [kind |-> "log1p", v |-> df.rows[k][PRICE].v]
                  ELSE df.rows[k][c]]])

\* lines 129-136
BuildFinal ==
  /\ pc = "build_final"
  /\ \E tr \in {Drop(train_df, IMAGE_LINK)}, te \in {Drop(test_df, IMAGE_LINK)} :
       /\ train_df' = tr
       /\ test_df' = te
       /\ \E joined \in {ConcatAxis1(tr, train_cols)} : train_final' = AddLogPrice(joined)
       /\ test_final' = ConcatAxis1(te, test_cols)
  /\ pc' = "write_train"
  /\ UNCHANGED <<fs, fs_initial, train_features_df, test_features_df,
                 median_measure, median_pack_size, train_cols, test_cols,
                 fits, fills, call, ret>>

\* line 139
WriteTrain ==
  /\ pc = "write_train"
  /\ fs' = ToParquet(fs, TRAIN_OUT)
  /\ pc' = "write_test"
  /\ UNCHANGED <<fs_initial, train_df, test_df, frames, call, ret>>

\* line 140
WriteTest ==
  /\ pc = "write_test"
  /\ fs' = ToParquet(fs, TEST_OUT)
  /\ pc' = "done"
  /\ UNCHANGED <<fs_initial, train_df, test_df, frames, call, ret>>

Next ==
  \/ MakeDirs
  \/ ReadTrain
  \/ ReadTrainFails
  \/ ReadTest
  \/ ReadTestFails
  \/ CheckRows
  \/ ProcessTrain
  \/ ProcessTest
  \/ AlignColumns
  \/ BuildFinal
  \/ WriteTrain
  \/ WriteTest

Spec == Init /\ [][Next]_vars

(***************************************************************************)
(* extract_features on its own: one call on a series of at most one text   *)
(* built from the fragments, or of up to MaxRuns of the sample cells.      *)
(***************************************************************************)
Fragments ==
  { <<"1", "2">>,
    <<" ", "p", "e", "r", " ", "c", "a", "s", "e">>,
    <<"P", "a", "c", "k", " ", "o", "f", " ">>,
    <<"(", "6", ")">>,
    <<"V", "a", "l", "u", "e", ":", " ">>,
    <<"1", ".", "5">>,
    <<".">>,
    <<"U", "n", "i", "t", ":", " ">>,
    <<"O", "z">>,
    <<"\n">>,
    <<"_">>,
    <<";">> }

RECURSIVE Concats(_)
Concats(n) ==
  IF n = 0 THEN {<<>>}
  ELSE The({shorter \cup {a \o f : a \in shorter, f \in Fragments} :
              shorter \in {Concats(n - 1)}})

Texts == Concats(MaxFrags)

\* a unit line followed by a value line
UnitThenValue ==
  <<"U", "n", "i", "t", ":", " ", "O", "z", "\n", "V", "a", "l", "u", "e", ":", " ",
    "1", ".", "5">>

SampleCells == CatalogCells \cup {Str(UnitThenValue), NA}

ExtractInputs ==
  SeqsUpTo({Str(t) : t \in Texts}, 1) \cup SeqsUpTo(SampleCells, MaxRuns)

Idle ==
  /\ fs = [dirs |-> {}, files |-> NoFiles]
  /\ fs_initial = fs
  /\ train_df = NoFrame /\ test_df = NoFrame
  /\ train_features_df = NoFrame /\ test_features_df = NoFrame
  /\ median_measure = None /\ median_pack_size = None
  /\ train_cols = NoFrame /\ test_cols = NoFrame
  /\ train_final = NoFrame /\ test_final = NoFrame
  /\ fits = <<>>
  /\ fills = [train |-> <<None, None>>, test |-> <<None, None>>]

InitExtract ==
  /\ pc = "call"
  /\ call \in {[fn |-> "extract_features", text_series |-> ts] : ts \in ExtractInputs}
  /\ ret = NoReturn
  /\ Idle

CallExtract ==
  /\ pc = "call"
  /\ call.fn = "extract_features"
  /\ ret' = extract_features(call.text_series)
  /\ pc' = "returned"
  /\ UNCHANGED <<fs, fs_initial, train_df, test_df, frames, call>>

NextExtract == CallExtract

SpecExtract == InitExtract /\ [][NextExtract]_vars

(***************************************************************************)
(* create_feature_df on its own: one call on a table of up to MaxRuns runs *)
(* of the sample cells, with each median given or left out.                *)
(***************************************************************************)
FeatureTables ==
  {ReadCsv(<<SAMPLE_ID, CATALOG_CONTENT, IMAGE_LINK>>, texts) :
     texts \in SeqsUpTo(CatalogCells \cup {NA}, MaxRuns)}

MedianArgs == {None, NaN, Num(0), Num(3 * FloatDen)}

InitFeature ==
  /\ pc = "call"
  /\ call \in {[fn |-> "create_feature_df", df |-> t,
                median_measure |-> mm, median_pack_size |-> mp] :
                 t \in FeatureTables, mm \in MedianArgs, mp \in MedianArgs}
  /\ ret = NoReturn
  /\ Idle

CallCreateFeature ==
  /\ pc = "call"
  /\ call.fn = "create_feature_df"
  /\ ret' = create_feature_df(call.df, call.median_measure, call.median_pack_size)
  /\ pc' = "returned"
  /\ UNCHANGED <<fs, fs_initial, train_df, test_df, frames, call>>

NextFeature == CallCreateFeature

SpecFeature == InitFeature /\ [][NextFeature]_vars

(***************************************************************************)
(* Properties.                                                             *)
(***************************************************************************)
AfterTrainFeatures == {"test_features", "align", "build_final", "write_train",
                       "write_test", "done"}
AfterTestFeatures == {"align", "build_final", "write_train", "write_test", "done"}
AfterAlign == {"build_final", "write_train", "write_test", "done"}
AfterBuild == {"write_train", "write_test", "done"}
Aborted == {"exit_load_error", "exit_incomplete"}

\* the medians of the two numeric columns of a feature table
MediansOf(features_df) ==
  <<Median(Column(features_df, TOTAL_MEASURE)), Median(Column(features_df, PACK_SIZE))>>

C2_AlignedToIntersection ==
  pc \in AfterAlign =>
    LET common == Range(train_features_df.columns) \cap Range(test_features_df.columns)
    IN  /\ train_cols.columns = test_cols.columns
        /\ Range(train_cols.columns) = common
        /\ Len(train_cols.columns) = Cardinality(common)
        /\ train_cols.index = train_features_df.index
        /\ test_cols.index = test_features_df.index
        /\ \A k \in 1..Len(train_cols.index) :
             /\ DOMAIN train_cols.rows[k] = common
             /\ \A c \in common : train_cols.rows[k][c] = train_features_df.rows[k][c]
        /\ \A k \in 1..Len(test_cols.index) :
             /\ DOMAIN test_cols.rows[k] = common
             /\ \A c \in common : test_cols.rows[k][c] = test_features_df.rows[k][c]

\* C2 witness: train has units oz and lb, test has oz and ml, and the
\* reconciled columns are pack_size, total_measure and the oz indicator.
C2_Witness ==
  /\ pc = "build_final"
  /\ Col("unit_", <<"l", "b">>) \in Range(train_features_df.columns)
  /\ Col("unit_", <<"m", "l">>) \in Range(test_features_df.columns)
  /\ train_cols.columns = <<PACK_SIZE, TOTAL_MEASURE, Col("unit_", <<"o", "z">>)>>

\* row k of final is row k of the input table (the file order, labels
\* 0..n-1) followed by the features extracted from the text of that row
RowsFollowInput(final, input) ==
  /\ NumRows(final) = NumRows(input)
  /\ Len(final.index) = Len(input.index)
  /\ \A k \in 1..Len(input.index) :
       /\ input.index[k] = k - 1
       /\ input.rows[k][SAMPLE_ID] = Num(k)
       /\ final.index[k] = input.index[k]
       /\ final.rows[k][SAMPLE_ID] = input.rows[k][SAMPLE_ID]
       /\ final.rows[k][CATALOG_CONTENT] = input.rows[k][CATALOG_CONTENT]
       /\ final.rows[k][PACK_SIZE] = PackSizeOf(AsStr(input.rows[k][CATALOG_CONTENT]))
       /\ final.rows[k][TOTAL_MEASURE] = ValueOf(AsStr(input.rows[k][CATALOG_CONTENT]))
       /\ \A c \in Range(final.columns) :
            c.name = "unit_" =>
              final.rows[k][c] = (c.token = UnitOf(AsStr(input.rows[k][CATALOG_CONTENT])))

\* C3: for train and for test the final table has as many rows as the input
\* table and row i of it is built from row i of the input.
C3_RowsPreserved ==
  pc \in AfterBuild =>
    /\ RowsFollowInput(train_final, train_df)
    /\ RowsFollowInput(test_final, test_df)

\* C3 witness: final tables are built from a train table of two different
\* rows and a test table that has rows.
C3_Witness ==
  /\ pc = "done"
  /\ Len(train_final.index) >= 2
  /\ train_final.rows[1][CATALOG_CONTENT] # train_final.rows[2][CATALOG_CONTENT]
  /\ Len(test_final.index) >= 1

\* C4: feature work starts, and an output file is written, only when both
\* files were loaded and train has at least 75000 rows; a run aborted at
\* loading or at the row count has done no feature work and written no file.
C4_NoWorkWithoutCompleteData ==
  /\ (pc \in {"train_features", "crashed"} \cup AfterTrainFeatures
        \/ fs.files # fs_initial.files
        \/ train_features_df # NoFrame
        \/ fits # <<>>) =>
       /\ train_df # NoFrame
       /\ test_df # NoFrame
       /\ NumRows(train_df) >= MinTrainRows
  /\ pc = "check_rows" => train_df # NoFrame /\ test_df # NoFrame
  /\ pc \in Aborted =>
       /\ fs.files = fs_initial.files
       /\ train_features_df = NoFrame /\ test_features_df = NoFrame
       /\ train_final = NoFrame /\ test_final = NoFrame
       /\ fits = <<>>
       /\ train_df = NoFrame \/ test_df = NoFrame \/ NumRows(train_df) < MinTrainRows

\* C4 witness: both files loaded, train has rows but fewer than 75000, and
\* the run has aborted.
C4_Witness ==
  /\ pc = "exit_incomplete"
  /\ test_df # NoFrame
  /\ NumRows(train_df) > 0
  /\ NumRows(train_df) < MinTrainRows

\* C10 as stated: before the final persistence step the file system (files
\* and directories) is as the run found it.
C10_NothingTouchedBeforePersist ==
  pc \notin {"write_test", "done"} => fs = fs_initial

\* C10 amended: before the final persistence step no file is created or
\* modified, and the only change is the creation at start-up of the output
\* directory data/processed with its parent data.
C10_OnlyOutputDirBeforePersist ==
  pc \notin {"write_test", "done"} =>
    /\ fs.files = fs_initial.files
    /\ fs.dirs = fs_initial.dirs
                   \cup (IF pc = "makedirs" THEN {} ELSE {"data", PROCESSED_DATA_FOLDER})

\* C10 witness: a run aborted at loading that has created the output
\* directory.
C10_Witness ==
  /\ pc = "exit_load_error"
  /\ PROCESSED_DATA_FOLDER \in fs.dirs \ fs_initial.dirs

Returned(fn) == pc = "returned" /\ call.fn = fn

\* C5: extracting from "12 per case" yields pack_size 12, total_measure 0
\* and unit "unknown".
C5_TwelvePerCase ==
  (/\ Returned("extract_features")
   /\ call.text_series = <<Str(<<"1", "2", " ", "p", "e", "r", " ", "c", "a", "s", "e">>)>>) =>
    ret = [exc |-> "",
           pack_sizes |-> <<Num(12 * FloatDen)>>,
           values |-> <<Num(0)>>,
           units |-> <<(<<"u", "n", "k", "n", "o", "w", "n">>)>>]

\* C7: the unit token holds lowercase letters and inner spaces only (the
\* sentinel "unknown" included): no digit, underscore or line break.
C7_UnitTokenLettersAndSpaces ==
  (Returned("extract_features") /\ ret.exc = "") =>
    \A i \in 1..Len(ret.units) :
      /\ \A j \in 1..Len(ret.units[i]) : ret.units[i][j] \in LowerLetters \cup {" "}
      /\ ret.units[i] = Strip(ret.units[i])

\* C8: extract_features returns, without raising, one triple per input row.
C8_ExtractNeverRaises ==
  Returned("extract_features") =>
    /\ ret.exc = ""
    /\ Len(ret.pack_sizes) = Len(call.text_series)
    /\ Len(ret.values) = Len(call.text_series)
    /\ Len(ret.units) = Len(call.text_series)

\* C6: create_feature_df called without a median on a table of zero rows
\* raises; it returns no undefined median.
C6_EmptyFitIsFatal ==
  (/\ Returned("create_feature_df")
   /\ NumRows(call.df) = 0
   /\ (call.median_measure = None \/ call.median_pack_size = None)) =>
    ret.exc # ""

\* C9: the pack_size and total_measure columns create_feature_df returns
\* are the extracted values, the defaults 1 and 0 included, whatever
\* medians are given or computed.
C9_FillLeavesExtractedValues ==
  (Returned("create_feature_df") /\ ret.exc = "") =>
    \A k \in 1..Len(call.df.index) :
      /\ ret.features_df.rows[k][PACK_SIZE]
           = PackSizeOf(AsStr(call.df.rows[k][CATALOG_CONTENT]))
      /\ ret.features_df.rows[k][TOTAL_MEASURE]
           = ValueOf(AsStr(call.df.rows[k][CATALOG_CONTENT]))
      /\ ret.features_df.rows[k][PACK_SIZE].kind = "num"
      /\ ret.features_df.rows[k][TOTAL_MEASURE].kind = "num"

\* C9 witness: a row with the defaults total_measure 0 and pack_size 1 kept
\* although other medians were given.
C9_Witness ==
  /\ Returned("create_feature_df")
  /\ ret.exc = ""
  /\ call.median_measure = Num(3 * FloatDen)
  /\ call.median_pack_size = Num(3 * FloatDen)
  /\ \E k \in 1..Len(call.df.index) :
       /\ ret.features_df.rows[k][TOTAL_MEASURE] = Num(0)
       /\ ret.features_df.rows[k][PACK_SIZE] = Num(1 * FloatDen)

====
